---- MODULE Spec2Model ----
(***************************************************************************)
(* Model of the Dominoes game of dominoes.py: the Dominoes object (stock,  *)
(* the two hands, the snake, the status) and the module-level driver that  *)
(* deals, opens the game and runs the game loop.                           *)
(*                                                                         *)
(* A piece is the sequence <<a, b>> of its two numbers, as the nested      *)
(* lists of the program; a list of pieces is a sequence of pieces.         *)
(***************************************************************************)
EXTENDS Integers, Sequences, FiniteSets, TLC

VARIABLES stock_pieces, computer_pieces, player_pieces, domino_snake,
          status, pc, move, output

vars == <<stock_pieces, computer_pieces, player_pieces, domino_snake,
          status, pc, move, output>>

game == <<stock_pieces, computer_pieces, player_pieces, domino_snake, status>>

(***************************************************************************)
(* Bounds of the model.                                                    *)
(***************************************************************************)
\* the human types integers in -MaxMove .. MaxMove
MaxMove == 2
\* new_game draws its random results from RandomOutcomes[1 .. MaxOutcome]
MaxOutcome == 3

(***************************************************************************)
(* Program constants.                                                      *)
(***************************************************************************)
HandSize == 7
MaxPip == 6
DrawCount == 8

initial_pieces ==
    << <<0, 0>>, <<0, 1>>, <<0, 2>>, <<0, 3>>, <<0, 4>>, <<0, 5>>, <<0, 6>>,
       <<1, 1>>, <<1, 2>>, <<1, 3>>, <<1, 4>>, <<1, 5>>, <<1, 6>>,
       <<2, 2>>, <<2, 3>>, <<2, 4>>, <<2, 5>>, <<2, 6>>,
       <<3, 3>>, <<3, 4>>, <<3, 5>>, <<3, 6>>,
       <<4, 4>>, <<4, 5>>, <<4, 6>>,
       <<5, 5>>, <<5, 6>>,
       <<6, 6>> >>

\* the doubles listed from the lowest up
double_pieces_ascending ==
    << <<0, 0>>, <<1, 1>>, <<2, 2>>, <<3, 3>>, <<4, 4>>, <<5, 5>>, <<6, 6>> >>

double_pieces ==
    << <<6, 6>>, <<5, 5>>, <<4, 4>>, <<3, 3>>, <<2, 2>>, <<1, 1>>, <<0, 0>> >>

(***************************************************************************)
(* List helpers (Python list operations).                                  *)
(***************************************************************************)
\* x in lst
In(x, lst) == \E i \in 1..Len(lst) : lst[i] = x

\* piece[::-1]
Reversed(piece) == <<piece[2], piece[1]>>

\* lst.pop(i - 1) leaves this list (i is 1-based here)
RemoveAt(lst, i) == [j \in 1..(Len(lst) - 1) |-> IF j < i THEN lst[j] ELSE lst[j + 1]]

\* lst.remove(x): removes the first occurrence of x
Remove(lst, x) ==
    RemoveAt(lst, CHOOSE i \in 1..Len(lst) :
                      lst[i] = x /\ \A j \in 1..(i - 1) : lst[j] # x)

\* lst.insert(0, x)
InsertFront(lst, x) == <<x>> \o lst

\* [p for p in lst if p not in taken]
NotIn(lst, taken) == SelectSeq(lst, LAMBDA p : ~In(p, taken))

\* lst[:n]
Take(lst, n) == SubSeq(lst, 1, n)

(***************************************************************************)
(* random.shuffle and random.sample.  The generator can produce every      *)
(* permutation; the model draws from the family of permutations            *)
(* i |-> (a * i + k) mod n, a the least number above k coprime to n.       *)
(***************************************************************************)
RECURSIVE GCD(_, _)
GCD(a, b) == IF b = 0 THEN a ELSE GCD(b, a % b)

Stride(n, k) ==
    CHOOSE a \in (k + 1)..(k + n) :
        GCD(a, n) = 1 /\ \A b \in (k + 1)..(a - 1) : GCD(b, n) # 1

Permute(lst, k) ==
    LET n == Len(lst)
    IN  [i \in 1..n |-> lst[((Stride(n, k) * (i - 1) + k) % n) + 1]]

\* random.shuffle(lst) with the generator in state k
Shuffle(lst, k) == Permute(lst, k)

\* random.sample(lst, n) with the generator in state k: n distinct
\* elements of lst in random order
Sample(lst, n, k) == Take(Permute(lst, k), n)

\* the generator states of the three random calls of one new_game
RandomOutcomes ==
    << <<0, 4, 3>>, <<3, 6, 1>>, <<1, 3, 2>>, <<2, 3, 3>> >>

(***************************************************************************)
(* Dominoes.__init__                                                       *)
(***************************************************************************)
Init ==
    /\ stock_pieces = initial_pieces
    /\ computer_pieces = <<>>
    /\ player_pieces = <<>>
    /\ domino_snake = <<>>
    /\ status = ""
    /\ pc = "new_game"
    /\ move = 0
    /\ output = ""

(***************************************************************************)
(* Dominoes.new_game: the stock, the computer's hand and the player's hand *)
(* it leaves, the three random calls being in generator states r[1..3].    *)
(***************************************************************************)
new_game(stock, r) ==
    LET shuffled == Shuffle(stock, r[1])
        computer == Sample(shuffled, HandSize, r[2])
        stock1   == NotIn(shuffled, computer)
        player   == Sample(stock1, HandSize, r[3])
        stock2   == NotIn(stock1, player)
    IN  [stock |-> stock2, computer |-> computer, player |-> player]

(***************************************************************************)
(* Dominoes.start_game, from the i-th double of double_pieces on.          *)
(***************************************************************************)
RECURSIVE start_game_from(_)
start_game_from(i) ==
    IF i > Len(double_pieces)
    THEN [possible |-> FALSE, computer |-> computer_pieces,
          player |-> player_pieces, snake |-> domino_snake, status |-> status]
    ELSE LET double == double_pieces[i]
         IN  IF In(double, computer_pieces)
             THEN [possible |-> TRUE,
                   computer |-> Remove(computer_pieces, double),
                   player |-> player_pieces,
                   snake |-> Append(domino_snake, double),
                   status |-> "player"]
             ELSE IF In(double, player_pieces)
             THEN [possible |-> TRUE,
                   computer |-> computer_pieces,
                   player |-> Remove(player_pieces, double),
                   snake |-> Append(domino_snake, double),
                   status |-> "computer"]
             ELSE start_game_from(i + 1)

\* start_game that gives the turn to the player when no double is found
start_game_default_turn ==
    IF start_game_from(1).possible
    THEN start_game_from(1)
    ELSE [start_game_from(1) EXCEPT !.status = "player"]

start_game == start_game_from(1)

(***************************************************************************)
(* Dominoes.move_is_legal (the snake is not empty).                        *)
(***************************************************************************)
\* move_is_legal that accepts every piece
move_is_legal_any(piece, mv) == TRUE

\* move_is_legal that compares with the inner number of the end pieces
move_is_legal_inner(piece, mv) ==
    IF mv < 0 /\ domino_snake[1][2] \in {piece[1], piece[2]} THEN TRUE
    ELSE IF mv > 0 /\ domino_snake[Len(domino_snake)][1] \in {piece[1], piece[2]} THEN TRUE
    ELSE IF mv = 0 THEN TRUE
    ELSE FALSE

move_is_legal(piece, mv) ==
    IF mv < 0 /\ domino_snake[1][1] \in {piece[1], piece[2]} THEN TRUE
    ELSE IF mv > 0 /\ domino_snake[Len(domino_snake)][2] \in {piece[1], piece[2]} THEN TRUE
    ELSE IF mv = 0 THEN TRUE
    ELSE FALSE

(***************************************************************************)
(* Dominoes.ai_move                                                        *)
(***************************************************************************)
\* appearances of num in the pieces of lst
Appearances(lst, num) ==
    Cardinality({<<i, j>> \in (1..Len(lst)) \X (1..2) : lst[i][j] = num})

number_count ==
    [num \in 0..MaxPip |->
        Appearances(computer_pieces, num) + Appearances(domino_snake, num)]

piece_score ==
    [i \in 1..Len(computer_pieces) |->
        number_count[computer_pieces[i][1]] + number_count[computer_pieces[i][2]]]

\* index of the last greatest score instead of the first
IndexOfMax_last(score) ==
    CHOOSE i \in 1..Len(score) :
        /\ \A j \in 1..Len(score) : score[j] <= score[i]
        /\ \A j \in (i + 1)..Len(score) : score[j] < score[i]

\* score.index(max(score)), 1-based
IndexOfMax(score) ==
    CHOOSE i \in 1..Len(score) :
        /\ \A j \in 1..Len(score) : score[j] <= score[i]
        /\ \A j \in 1..(i - 1) : score[j] < score[i]

\* ai_move's loop without the check of the right end
RECURSIVE ai_try_left_only(_, _)
ai_try_left_only(score, n) ==
    IF n = 0 THEN 0
    ELSE CHOOSE result \in
             {IF move_is_legal(computer_pieces[piece_index], -1)
              THEN -piece_index
              ELSE ai_try_left_only([score EXCEPT ![piece_index] = -1], n - 1) :
                  piece_index \in {IndexOfMax(score)}} : TRUE

\* the loop "for _ in range(len(piece_score))" with n iterations left;
\* piece_index is bound to the value of score.index(max(score))
RECURSIVE ai_try(_, _)
ai_try(score, n) ==
    IF n = 0 THEN 0
    ELSE CHOOSE result \in
             {IF move_is_legal(computer_pieces[piece_index], -1)
              THEN -piece_index
              ELSE IF move_is_legal(computer_pieces[piece_index], 1)
              THEN piece_index
              ELSE ai_try([score EXCEPT ![piece_index] = -1], n - 1) :
                  piece_index \in {IndexOfMax(score)}} : TRUE

ai_move ==
    CHOOSE result \in {ai_try(score, Len(score)) : score \in {piece_score}} : TRUE

(***************************************************************************)
(* Dominoes.apply_move: the hand, the snake and the stock it leaves.       *)
(***************************************************************************)
Abs(n) == IF n < 0 THEN -n ELSE n

\* apply_move that never reverses the placed piece
apply_move_no_flip(pieces, mv) ==
    IF mv < 0
    THEN [pieces |-> RemoveAt(pieces, Abs(mv)),
          snake  |-> InsertFront(domino_snake, pieces[Abs(mv)]),
          stock  |-> stock_pieces]
    ELSE IF mv > 0
    THEN [pieces |-> RemoveAt(pieces, mv),
          snake  |-> Append(domino_snake, pieces[mv]),
          stock  |-> stock_pieces]
    ELSE IF Len(stock_pieces) > 0
    THEN [pieces |-> Append(pieces, stock_pieces[Len(stock_pieces)]),
          snake  |-> domino_snake,
          stock  |-> Take(stock_pieces, Len(stock_pieces) - 1)]
    ELSE [pieces |-> pieces, snake |-> domino_snake, stock |-> stock_pieces]

\* apply_move that reads the last piece of the stock without popping it
apply_move_keep_stock(pieces, mv) ==
    IF mv < 0
    THEN LET snake == InsertFront(domino_snake, pieces[Abs(mv)])
         IN  [pieces |-> RemoveAt(pieces, Abs(mv)),
              snake  |-> IF snake[1][2] # snake[2][1]
                         THEN [snake EXCEPT ![1] = Reversed(snake[1])]
                         ELSE snake,
              stock  |-> stock_pieces]
    ELSE IF mv > 0
    THEN LET snake == Append(domino_snake, pieces[mv])
             n     == Len(snake)
         IN  [pieces |-> RemoveAt(pieces, mv),
              snake  |-> IF snake[n][1] # snake[n - 1][2]
                         THEN [snake EXCEPT ![n] = Reversed(snake[n])]
                         ELSE snake,
              stock  |-> stock_pieces]
    ELSE IF Len(stock_pieces) > 0
    THEN [pieces |-> Append(pieces, stock_pieces[Len(stock_pieces)]),
          snake  |-> domino_snake,
          stock  |-> stock_pieces]
    ELSE [pieces |-> pieces, snake |-> domino_snake, stock |-> stock_pieces]

\* apply_move that pops the last piece of the hand and places the indexed one
apply_move_pop_last(pieces, mv) ==
    IF mv < 0
    THEN LET snake == InsertFront(domino_snake, pieces[Abs(mv)])
         IN  [pieces |-> RemoveAt(pieces, Len(pieces)),
              snake  |-> IF snake[1][2] # snake[2][1]
                         THEN [snake EXCEPT ![1] = Reversed(snake[1])]
                         ELSE snake,
              stock  |-> stock_pieces]
    ELSE IF mv > 0
    THEN LET snake == Append(domino_snake, pieces[mv])
             n     == Len(snake)
         IN  [pieces |-> RemoveAt(pieces, Len(pieces)),
              snake  |-> IF snake[n][1] # snake[n - 1][2]
                         THEN [snake EXCEPT ![n] = Reversed(snake[n])]
                         ELSE snake,
              stock  |-> stock_pieces]
    ELSE IF Len(stock_pieces) > 0
    THEN [pieces |-> Append(pieces, stock_pieces[Len(stock_pieces)]),
          snake  |-> domino_snake,
          stock  |-> Take(stock_pieces, Len(stock_pieces) - 1)]
    ELSE [pieces |-> pieces, snake |-> domino_snake, stock |-> stock_pieces]

\* apply_move that reverses the piece placed on the right when it already fits
apply_move_flip_inverted(pieces, mv) ==
    IF mv < 0
    THEN LET snake == InsertFront(domino_snake, pieces[Abs(mv)])
         IN  [pieces |-> RemoveAt(pieces, Abs(mv)),
              snake  |-> IF snake[1][2] # snake[2][1]
                         THEN [snake EXCEPT ![1] = Reversed(snake[1])]
                         ELSE snake,
              stock  |-> stock_pieces]
    ELSE IF mv > 0
    THEN LET snake == Append(domino_snake, pieces[mv])
             n     == Len(snake)
         IN  [pieces |-> RemoveAt(pieces, mv),
              snake  |-> IF snake[n][1] = snake[n - 1][2]
                         THEN [snake EXCEPT ![n] = Reversed(snake[n])]
                         ELSE snake,
              stock  |-> stock_pieces]
    ELSE IF Len(stock_pieces) > 0
    THEN [pieces |-> Append(pieces, stock_pieces[Len(stock_pieces)]),
          snake  |-> domino_snake,
          stock  |-> Take(stock_pieces, Len(stock_pieces) - 1)]
    ELSE [pieces |-> pieces, snake |-> domino_snake, stock |-> stock_pieces]

apply_move(pieces, mv) ==
    IF mv < 0
    THEN LET snake == InsertFront(domino_snake, pieces[Abs(mv)])
         IN  [pieces |-> RemoveAt(pieces, Abs(mv)),
              snake  |-> IF snake[1][2] # snake[2][1]
                         THEN [snake EXCEPT ![1] = Reversed(snake[1])]
                         ELSE snake,
              stock  |-> stock_pieces]
    ELSE IF mv > 0
    THEN LET snake == Append(domino_snake, pieces[mv])
             n     == Len(snake)
         IN  [pieces |-> RemoveAt(pieces, mv),
              snake  |-> IF snake[n][1] # snake[n - 1][2]
                         THEN [snake EXCEPT ![n] = Reversed(snake[n])]
                         ELSE snake,
              stock  |-> stock_pieces]
    ELSE IF Len(stock_pieces) > 0
    THEN [pieces |-> Append(pieces, stock_pieces[Len(stock_pieces)]),
          snake  |-> domino_snake,
          stock  |-> Take(stock_pieces, Len(stock_pieces) - 1)]
    ELSE [pieces |-> pieces, snake |-> domino_snake, stock |-> stock_pieces]

(***************************************************************************)
(* Dominoes.game_over: the status it leaves.                               *)
(***************************************************************************)
\* game_over that looks at the board before the hands
game_over_board_first ==
    LET left_end  == domino_snake[1][1]
        right_end == domino_snake[Len(domino_snake)][2]
    IN  IF /\ left_end = right_end
           /\ Appearances(domino_snake, left_end) >= DrawCount
        THEN "draw"
        ELSE IF Len(player_pieces) = 0 THEN "player_wins"
        ELSE IF Len(computer_pieces) = 0 THEN "computer_wins"
        ELSE status

\* game_over that switches the turn when the game goes on
game_over_toggle ==
    IF Len(player_pieces) = 0 THEN "player_wins"
    ELSE IF Len(computer_pieces) = 0 THEN "computer_wins"
    ELSE LET left_end  == domino_snake[1][1]
             right_end == domino_snake[Len(domino_snake)][2]
         IN  IF /\ left_end = right_end
                /\ Len(SelectSeq(domino_snake,
                                 LAMBDA piece : left_end \in {piece[1], piece[2]}))
                       >= DrawCount
             THEN "draw"
             ELSE IF status = "player" THEN "computer" ELSE "player"

\* game_over without the check of the player's hand
game_over_no_player_win ==
    IF Len(computer_pieces) = 0 THEN "computer_wins"
    ELSE LET left_end  == domino_snake[1][1]
             right_end == domino_snake[Len(domino_snake)][2]
         IN  IF /\ left_end = right_end
                /\ Len(SelectSeq(domino_snake,
                                 LAMBDA piece : left_end \in {piece[1], piece[2]}))
                       >= DrawCount
             THEN "draw"
             ELSE status

\* game_over that names the wrong winner
game_over_swapped ==
    IF Len(player_pieces) = 0 THEN "computer_wins"
    ELSE IF Len(computer_pieces) = 0 THEN "player_wins"
    ELSE LET left_end  == domino_snake[1][1]
             right_end == domino_snake[Len(domino_snake)][2]
         IN  IF /\ left_end = right_end
                /\ Len(SelectSeq(domino_snake,
                                 LAMBDA piece : left_end \in {piece[1], piece[2]}))
                       >= DrawCount
             THEN "draw"
             ELSE status

game_over ==
    IF Len(player_pieces) = 0 THEN "player_wins"
    ELSE IF Len(computer_pieces) = 0 THEN "computer_wins"
    ELSE LET left_end  == domino_snake[1][1]
             right_end == domino_snake[Len(domino_snake)][2]
         IN  IF /\ left_end = right_end
                /\ Len(SelectSeq(domino_snake,
                                 LAMBDA piece : left_end \in {piece[1], piece[2]}))
                       >= DrawCount
             THEN "draw"
             ELSE status

(***************************************************************************)
(* The driver: "while True: new_game(); if start_game(): break".           *)
(***************************************************************************)
\* dominoes.new_game(); random.sample raises ValueError on a list shorter
\* than the sample
NewGame ==
    /\ pc = "new_game"
    /\ Len(stock_pieces) >= 2 * HandSize
    /\ \E o \in 1..MaxOutcome :
          \E g \in {new_game(stock_pieces, RandomOutcomes[o])} :
             /\ stock_pieces' = g.stock
             /\ computer_pieces' = g.computer
             /\ player_pieces' = g.player
    /\ pc' = "start_game"
    /\ UNCHANGED <<domino_snake, status, move, output>>

\* if dominoes.start_game(): break
StartGame ==
    /\ pc = "start_game"
    /\ \E g \in {start_game} :
          /\ computer_pieces' = g.computer
          /\ player_pieces' = g.player
          /\ domino_snake' = g.snake
          /\ status' = g.status
          /\ pc' = IF g.possible THEN "loop" ELSE "new_game"
    /\ UNCHANGED <<stock_pieces, move, output>>

(***************************************************************************)
(* The game loop: dominoes.move() then dominoes.game_over().               *)
(***************************************************************************)
\* the integers the human types
Inputs == (-MaxMove)..MaxMove

\* self.player_pieces[abs(player_move) - 1]: index -1 is the last piece
Indexed(pieces, mv) == IF mv = 0 THEN pieces[Len(pieces)] ELSE pieces[Abs(mv)]

\* move(), player's turn: the input is valid and legal, the move is applied
PlayerMove(m) ==
    /\ pc = "loop"
    /\ status = "player"
    /\ Abs(m) <= Len(player_pieces)
    /\ move_is_legal(Indexed(player_pieces, m), m)
    /\ \E g \in {apply_move(player_pieces, m)} :
          /\ player_pieces' = g.pieces
          /\ domino_snake' = g.snake
          /\ stock_pieces' = g.stock
    /\ status' = "computer"
    /\ move' = m
    /\ output' = ""
    /\ pc' = "game_over"
    /\ UNCHANGED computer_pieces

\* move(), player's turn: the input is rejected and the loop reads again
RejectInput(m) ==
    /\ pc = "loop"
    /\ status = "player"
    /\ \/ /\ Abs(m) > Len(player_pieces)
          /\ output' = "Invalid input. Please try again."
       \/ /\ Abs(m) <= Len(player_pieces)
          /\ ~move_is_legal(Indexed(player_pieces, m), m)
          /\ output' = "Illegal move. Please try again."
    /\ move' = m
    /\ UNCHANGED <<game, pc>>

\* move(), player's turn: int(input()) raises ValueError
NonInteger ==
    /\ pc = "loop"
    /\ status = "player"
    /\ output' = "Invalid input. Please try again."
    /\ UNCHANGED <<game, pc, move>>

\* move() called whatever the status: its else branch takes every status
\* other than "player" for the computer's turn
ComputerMove_any_status ==
    /\ pc = "loop"
    /\ status # "player"
    /\ \E computer_move \in {ai_move} :
          \E g \in {apply_move(computer_pieces, computer_move)} :
             /\ computer_pieces' = g.pieces
             /\ domino_snake' = g.snake
             /\ stock_pieces' = g.stock
             /\ move' = computer_move
    /\ status' = "player"
    /\ output' = ""
    /\ pc' = "game_over"
    /\ UNCHANGED player_pieces

\* move(), computer's turn
ComputerMove ==
    /\ pc = "loop"
    /\ status = "computer"
    /\ \E computer_move \in {ai_move} :
          \E g \in {apply_move(computer_pieces, computer_move)} :
             /\ computer_pieces' = g.pieces
             /\ domino_snake' = g.snake
             /\ stock_pieces' = g.stock
             /\ move' = computer_move
    /\ status' = "player"
    /\ output' = ""
    /\ pc' = "game_over"
    /\ UNCHANGED player_pieces

\* dominoes.game_over()
GameOver ==
    /\ pc = "game_over"
    /\ status' = game_over
    /\ pc' = "loop"
    /\ UNCHANGED <<stock_pieces, computer_pieces, player_pieces, domino_snake,
                   move, output>>

\* if dominoes.status not in ("player", "computer"): break
Exit ==
    /\ pc = "loop"
    /\ status \notin {"player", "computer"}
    /\ pc' = "done"
    /\ UNCHANGED <<game, move, output>>

Next ==
    \/ NewGame
    \/ StartGame
    \/ \E m \in Inputs : PlayerMove(m)
    \/ \E m \in Inputs : RejectInput(m)
    \/ NonInteger
    \/ ComputerMove
    \/ GameOver
    \/ Exit

Spec == Init /\ [][Next]_vars

(***************************************************************************)
(* Vocabulary of the properties.                                           *)
(***************************************************************************)
\* a piece as an unordered pair
Tile(piece) == {piece[1], piece[2]}

Tiles(lst) == {Tile(lst[i]) : i \in 1..Len(lst)}

Universe == Tiles(initial_pieces)

Terminal == {"player_wins", "computer_wins", "draw"}

LeftEnd == domino_snake[1][1]

RightEnd == domino_snake[Len(domino_snake)][2]

\* the board is blocked on one number: both ends show it and all its
\* eight appearances are in the snake
BlockedBoard ==
    /\ domino_snake # <<>>
    /\ LeftEnd = RightEnd
    /\ Appearances(domino_snake, LeftEnd) = DrawCount

\* some piece of the hand can be placed on an end of the snake
CanPlay(pieces) ==
    \E i \in 1..Len(pieces) : LeftEnd \in Tile(pieces[i]) \/ RightEnd \in Tile(pieces[i])

(***************************************************************************)
(* C1  Tile conservation: the pieces of the stock, the two hands and the   *)
(* snake, as unordered pairs, are exactly the 28 tiles of the double-six   *)
(* set, each once and in one collection only.                              *)
(***************************************************************************)
C1_TileConservation ==
    LET all == stock_pieces \o player_pieces \o computer_pieces \o domino_snake
    IN  /\ Len(all) = Cardinality(Universe)
        /\ \A t \in Universe : Cardinality({i \in 1..Len(all) : Tile(all[i]) = t}) = 1

(***************************************************************************)
(* C2  Deal property: every new_game, the first and every re-deal, ends    *)
(* with a 7-tile computer hand, a 7-tile player hand disjoint from it and  *)
(* a 14-tile stock disjoint from both.                                     *)
(***************************************************************************)
C2_DealProperty ==
    pc = "start_game" =>
        /\ Len(computer_pieces) = HandSize
        /\ Len(player_pieces) = HandSize
        /\ Len(stock_pieces) = 2 * HandSize
        /\ Tiles(computer_pieces) \cap Tiles(player_pieces) = {}
        /\ Tiles(stock_pieces) \cap (Tiles(computer_pieces) \cup Tiles(player_pieces)) = {}

(***************************************************************************)
(* C3  Blocked-board draw: game_over evaluated with both hands non-empty,  *)
(* both ends of the snake showing the same number and that number          *)
(* appearing 8 times in the snake sets the status to draw.                 *)
(***************************************************************************)
C3_BlockedBoardDraw ==
    [][(/\ pc = "game_over"
        /\ Len(player_pieces) > 0
        /\ Len(computer_pieces) > 0
        /\ BlockedBoard) => status' = "draw"]_vars

(***************************************************************************)
(* C4  Termination: every game reaches a terminal status, the human        *)
(* playing a legal tile whenever they hold one once the stock is empty.    *)
(* LiveSpec is the driver with such a human: with an empty stock they      *)
(* place the first piece of the hand that can be placed, on either end,    *)
(* and draw only when no piece of the hand can be placed.  The driver is   *)
(* sequential, so each of its steps is taken once enabled; the input loop  *)
(* of move() ends because the human eventually types an accepted move.     *)
(***************************************************************************)
FirstPlayable(pieces) ==
    CHOOSE i \in 1..Len(pieces) :
        /\ LeftEnd \in Tile(pieces[i]) \/ RightEnd \in Tile(pieces[i])
        /\ \A j \in 1..(i - 1) :
               LeftEnd \notin Tile(pieces[j]) /\ RightEnd \notin Tile(pieces[j])

AssumedInputs ==
    IF stock_pieces # <<>> THEN Inputs
    ELSE IF CanPlay(player_pieces)
    THEN {FirstPlayable(player_pieces), -FirstPlayable(player_pieces)}
    ELSE {0}

AssumedPlayerMove ==
    /\ pc = "loop"
    /\ status = "player"
    /\ \E m \in AssumedInputs : PlayerMove(m)

LiveNext ==
    \/ NewGame
    \/ StartGame
    \/ AssumedPlayerMove
    \/ \E m \in Inputs : RejectInput(m)
    \/ NonInteger
    \/ ComputerMove
    \/ GameOver
    \/ Exit

LiveSpec ==
    /\ Init
    /\ [][LiveNext]_vars
    /\ WF_vars(NewGame)
    /\ WF_vars(StartGame)
    /\ WF_vars(AssumedPlayerMove)
    /\ WF_vars(ComputerMove)
    /\ WF_vars(GameOver)
    /\ WF_vars(Exit)

C4_Termination == <>(status \in Terminal)

(***************************************************************************)
(* C5  Chain adjacency: in the snake the second number of every piece is   *)
(* the first number of the piece to its right.                             *)
(***************************************************************************)
C5_ChainAdjacency ==
    \A i \in 1..(Len(domino_snake) - 1) : domino_snake[i][2] = domino_snake[i + 1][1]

\* the human has just placed a piece on a snake that holds a reversed piece
C5_Witness ==
    /\ pc = "game_over"
    /\ status = "computer"
    /\ move # 0
    /\ Len(domino_snake) >= 4
    /\ \E i \in 1..Len(domino_snake) : domino_snake[i][1] > domino_snake[i][2]

(***************************************************************************)
(* C6  Opener: when a hand holds a double, start_game returns True, the    *)
(* snake is then the highest double held in either hand and nothing else,  *)
(* that double is gone from the hand that held it (6 and 7 pieces left),   *)
(* and the side that did not hold it moves next.                           *)
(***************************************************************************)
Held(d) == In(<<d, d>>, computer_pieces) \/ In(<<d, d>>, player_pieces)

HighestDouble ==
    LET d == CHOOSE d \in 0..MaxPip : Held(d) /\ \A e \in (d + 1)..MaxPip : ~Held(e)
    IN  <<d, d>>

Without(lst, piece) == SelectSeq(lst, LAMBDA p : p # piece)

C6_Opener ==
    [][(pc = "start_game" /\ \E d \in 0..MaxPip : Held(d)) =>
        /\ pc' = "loop"
        /\ domino_snake' = <<HighestDouble>>
        /\ IF In(HighestDouble, computer_pieces)
           THEN /\ computer_pieces' = Without(computer_pieces, HighestDouble)
                /\ Len(computer_pieces') = HandSize - 1
                /\ player_pieces' = player_pieces
                /\ Len(player_pieces') = HandSize
                /\ status' = "player"
           ELSE /\ player_pieces' = Without(player_pieces, HighestDouble)
                /\ Len(player_pieces') = HandSize - 1
                /\ computer_pieces' = computer_pieces
                /\ Len(computer_pieces') = HandSize
                /\ status' = "computer"]_vars

\* the computer held the highest double and has opened with it, while the
\* player holds a lower double
C6_Witness ==
    /\ pc = "loop"
    /\ status = "player"
    /\ Len(domino_snake) = 1
    /\ Len(computer_pieces) = HandSize - 1
    /\ Len(player_pieces) = HandSize
    /\ \E i \in 1..Len(player_pieces) :
          /\ player_pieces[i][1] = player_pieces[i][2]
          /\ player_pieces[i][1] < domino_snake[1][1]

(***************************************************************************)
(* C7  Illegal moves leave the state unchanged: a non-zero input whose     *)
(* indexed piece does not show the number at the chosen end is rejected    *)
(* by move() with both hands, the stock, the snake and the status          *)
(* unchanged; so every piece the human places shows the number of the end  *)
(* it is placed on.                                                        *)
(***************************************************************************)
\* the number at the end of the snake that move mv addresses
EndOf(mv) == IF mv < 0 THEN LeftEnd ELSE RightEnd

C7_IllegalMoveRejected ==
    [][(pc = "loop" /\ status = "player" /\ move' # 0
        /\ Abs(move') <= Len(player_pieces)) =>
        IF EndOf(move') \in Tile(player_pieces[Abs(move')])
        THEN TRUE
        ELSE UNCHANGED game /\ pc' = "loop"]_vars

\* move() has just rejected an illegal non-zero input
C7_Witness ==
    /\ pc = "loop"
    /\ status = "player"
    /\ move # 0
    /\ output = "Illegal move. Please try again."

(***************************************************************************)
(* C8  Win detection and precedence: game_over after a move that leaves    *)
(* the player's hand empty sets player_wins, after a move that leaves the  *)
(* computer's hand empty (the player's not) computer_wins, also when the   *)
(* snake is a blocked board.                                               *)
(***************************************************************************)
C8_WinDetection ==
    [][pc = "game_over" =>
        /\ Len(player_pieces) = 0 => status' = "player_wins"
        /\ (Len(computer_pieces) = 0 /\ Len(player_pieces) # 0) =>
               status' = "computer_wins"]_vars

\* a hand went empty on a blocked board and game_over has declared the winner
C8_Witness ==
    /\ pc = "loop"
    /\ status \in {"player_wins", "computer_wins"}
    /\ BlockedBoard

(***************************************************************************)
(* C9  Legality: on a non-empty snake move_is_legal(piece, move) is, for   *)
(* move < 0, whether the piece shows the first number of the leftmost      *)
(* piece, for move > 0, whether it shows the second number of the          *)
(* rightmost piece, and true for move = 0.                                 *)
(***************************************************************************)
AllPieces ==
    {initial_pieces[i] : i \in 1..Len(initial_pieces)}
        \cup {Reversed(initial_pieces[i]) : i \in 1..Len(initial_pieces)}

C9_Legality ==
    domino_snake # <<>> =>
        \A piece \in AllPieces : \A mv \in Inputs :
            move_is_legal(piece, mv) <=>
                \/ mv < 0 /\ (piece[1] = domino_snake[1][1] \/ piece[2] = domino_snake[1][1])
                \/ mv > 0 /\ \/ piece[1] = domino_snake[Len(domino_snake)][2]
                             \/ piece[2] = domino_snake[Len(domino_snake)][2]
                \/ mv = 0

\* a snake whose four outer numbers differ, and a piece of the player's
\* hand that is legal on the left end only
C9_Witness ==
    /\ pc = "loop"
    /\ Len(domino_snake) >= 2
    /\ Cardinality({domino_snake[1][1], domino_snake[1][2],
                    domino_snake[Len(domino_snake)][1],
                    domino_snake[Len(domino_snake)][2]}) = 4
    /\ \E i \in 1..Len(player_pieces) :
          move_is_legal(player_pieces[i], -1) /\ ~move_is_legal(player_pieces[i], 1)

(***************************************************************************)
(* C10  Draw from stock: move 0 with a non-empty stock moves exactly one   *)
(* piece from the stock to the hand of the side that moves and leaves the  *)
(* snake and the other hand unchanged; move 0 with an empty stock changes  *)
(* no hand, nor the stock, nor the snake; either way the turn passes to    *)
(* the other side.                                                         *)
(***************************************************************************)
\* exactly one piece went from the list from to the list to
OneMoved(from, to, from2, to2) ==
    \E i \in 1..Len(from) :
        /\ from2 = RemoveAt(from, i)
        /\ Len(to2) = Len(to) + 1
        /\ \E j \in 1..Len(to2) : to2[j] = from[i] /\ RemoveAt(to2, j) = to

C10_DrawFromStock ==
    [][(pc = "loop" /\ pc' = "game_over" /\ move' = 0) =>
        /\ domino_snake' = domino_snake
        /\ status = "player" =>
              /\ status' = "computer"
              /\ computer_pieces' = computer_pieces
              /\ IF stock_pieces # <<>>
                 THEN OneMoved(stock_pieces, player_pieces, stock_pieces', player_pieces')
                 ELSE stock_pieces' = stock_pieces /\ player_pieces' = player_pieces
        /\ status = "computer" =>
              /\ status' = "player"
              /\ player_pieces' = player_pieces
              /\ IF stock_pieces # <<>>
                 THEN OneMoved(stock_pieces, computer_pieces, stock_pieces', computer_pieces')
                 ELSE stock_pieces' = stock_pieces /\ computer_pieces' = computer_pieces]_vars

\* the computer has just drawn a piece from a stock that is not yet empty,
\* after draws of the player
C10_Witness ==
    /\ pc = "game_over"
    /\ move = 0
    /\ status = "player"
    /\ stock_pieces # <<>>
    /\ Len(player_pieces) > HandSize

(***************************************************************************)
(* C11  AI plays when it can: ai_move returns 0 exactly when no piece of   *)
(* the computer's hand shows the number at the left or at the right end;   *)
(* a non-zero result is within the hand and legal for the indexed piece    *)
(* at the end its sign names.                                              *)
(***************************************************************************)
C11_AiPlaysWhenItCan ==
    domino_snake # <<>> =>
        \A m \in {ai_move} :
            /\ m = 0 <=> ~CanPlay(computer_pieces)
            /\ m # 0 =>
                  /\ Abs(m) >= 1
                  /\ Abs(m) <= Len(computer_pieces)
                  /\ EndOf(m) \in Tile(computer_pieces[Abs(m)])

\* the computer is to move and its only playable pieces fit the right end
C11_Witness ==
    /\ pc = "loop"
    /\ status = "computer"
    /\ ai_move > 1
    /\ \A i \in 1..Len(computer_pieces) : LeftEnd \notin Tile(computer_pieces[i])

(***************************************************************************)
(* C12  Strict turn alternation: move() hands the turn to the other side   *)
(* and the game_over() that follows either sets a terminal status or       *)
(* leaves the turn there, also after a draw from the stock, empty or not.  *)
(***************************************************************************)
C12_TurnAlternation ==
    [][/\ (pc = "loop" /\ pc' = "game_over") =>
              \/ status = "player" /\ status' = "computer"
              \/ status = "computer" /\ status' = "player"
       /\ pc = "game_over" => (status' \in Terminal \/ status' = status)
       /\ (pc = "loop" /\ pc' = "loop") => status' = status]_vars

\* the player has drawn with an empty stock and it is the computer's turn
C12_Witness ==
    /\ pc = "loop"
    /\ status = "computer"
    /\ move = 0
    /\ stock_pieces = <<>>

(***************************************************************************)
(* C13  AI greedy order: with the score of a piece the sum, over its two   *)
(* numbers, of their appearances in the computer's hand and the snake,     *)
(* ai_move plays the playable piece of greatest score, the first in the    *)
(* hand among equals, on the left end when it fits there and on the right  *)
(* end only when it does not.                                              *)
(***************************************************************************)
Freq(v) == Appearances(computer_pieces, v) + Appearances(domino_snake, v)

Score(i) == Freq(computer_pieces[i][1]) + Freq(computer_pieces[i][2])

Playable(i) ==
    LeftEnd \in Tile(computer_pieces[i]) \/ RightEnd \in Tile(computer_pieces[i])

Greedy ==
    CHOOSE i \in 1..Len(computer_pieces) :
        /\ Playable(i)
        /\ \A j \in 1..Len(computer_pieces) :
              (Playable(j) /\ j # i) =>
                  Score(j) < Score(i) \/ (Score(j) = Score(i) /\ j > i)

C13_AiGreedyOrder ==
    (domino_snake # <<>> /\ CanPlay(computer_pieces)) =>
        ai_move = IF LeftEnd \in Tile(computer_pieces[Greedy]) THEN -Greedy ELSE Greedy

\* the computer is to move; the piece it plays is not its best-scored one
\* and shares its score with a playable piece further in the hand
C13_Witness ==
    /\ pc = "loop"
    /\ status = "computer"
    /\ CanPlay(computer_pieces)
    /\ \E j \in 1..Len(computer_pieces) : Score(j) > Score(Greedy)
    /\ \E j \in (Greedy + 1)..Len(computer_pieces) :
          Playable(j) /\ Score(j) = Score(Greedy)

(***************************************************************************)
(* C14  Play-move frame: a legal non-zero move removes exactly the piece   *)
(* at index |move| - 1 from the hand of the side that moves and adds that  *)
(* piece, possibly reversed, at the left end for move < 0 and at the       *)
(* right end for move > 0; the other hand, the stock and the pieces        *)
(* already in the snake, in order and orientation, are unchanged.          *)
(***************************************************************************)
\* the effect of placing the piece of hand at index |mv|
Placed(hand, hand2, mv) ==
    /\ hand2 = RemoveAt(hand, Abs(mv))
    /\ Len(domino_snake') = Len(domino_snake) + 1
    /\ IF mv < 0
       THEN /\ SubSeq(domino_snake', 2, Len(domino_snake')) = domino_snake
            /\ Tile(domino_snake'[1]) = Tile(hand[Abs(mv)])
       ELSE /\ SubSeq(domino_snake', 1, Len(domino_snake)) = domino_snake
            /\ Tile(domino_snake'[Len(domino_snake')]) = Tile(hand[Abs(mv)])

C14_PlayMoveFrame ==
    [][(pc = "loop" /\ pc' = "game_over" /\ move' # 0) =>
        /\ stock_pieces' = stock_pieces
        /\ status = "player" =>
              /\ computer_pieces' = computer_pieces
              /\ Placed(player_pieces, player_pieces', move')
        /\ status = "computer" =>
              /\ player_pieces' = player_pieces
              /\ Placed(computer_pieces, computer_pieces', move')]_vars

\* the player has just placed the second piece of a hand of three or more
\* on the left end
C14_Witness ==
    /\ pc = "game_over"
    /\ status = "computer"
    /\ move = -2
    /\ Len(player_pieces) >= 2
    /\ Len(domino_snake) >= 3

(***************************************************************************)
(* C15  Orientation: after a legal non-zero move with the piece {a, b},    *)
(* a being the number at the chosen end, the placed piece faces the snake  *)
(* with a, the new number at that end is b (a again for a double) and the  *)
(* opposite end keeps its number.                                          *)
(***************************************************************************)
\* the number of the piece other than a
Other(piece, a) == IF piece[1] = a THEN piece[2] ELSE piece[1]

Oriented(hand, mv) ==
    IF mv < 0
    THEN /\ domino_snake'[1] = <<Other(hand[Abs(mv)], LeftEnd), LeftEnd>>
         /\ domino_snake'[Len(domino_snake')][2] = RightEnd
    ELSE /\ domino_snake'[Len(domino_snake')] = <<RightEnd, Other(hand[Abs(mv)], RightEnd)>>
         /\ domino_snake'[1][1] = LeftEnd

C15_Orientation ==
    [][(pc = "loop" /\ pc' = "game_over" /\ move' # 0) =>
        /\ status = "player" => Oriented(player_pieces, move')
        /\ status = "computer" => Oriented(computer_pieces, move')]_vars

\* a piece has just been placed on the right end reversed, the two ends
\* of the snake showing different numbers
C15_Witness ==
    /\ pc = "game_over"
    /\ move > 0
    /\ domino_snake[Len(domino_snake)][1] > domino_snake[Len(domino_snake)][2]
    /\ LeftEnd # RightEnd

(***************************************************************************)
(* C16  Opener failure frame: when neither hand holds a double,            *)
(* start_game returns False and leaves both hands, the stock, the empty    *)
(* snake and the status unchanged.                                         *)
(***************************************************************************)
C16_OpenerFailureFrame ==
    [][(pc = "start_game" /\ \A d \in 0..MaxPip : ~Held(d)) =>
        /\ pc' = "new_game"
        /\ domino_snake = <<>>
        /\ UNCHANGED game]_vars

\* start_game has failed on two dealt hands and the driver deals again
C16_Witness ==
    /\ pc = "new_game"
    /\ Len(computer_pieces) = HandSize
    /\ Len(player_pieces) = HandSize
    /\ domino_snake = <<>>
    /\ status = ""

(***************************************************************************)
(* C17  No precondition violation: move_is_legal, apply_move and           *)
(* game_over run on a non-empty snake only, the hand of the side to move   *)
(* is not empty when move() runs, and an applied non-zero move is between  *)
(* 1 and the size the hand of the side that moved had.                     *)
(***************************************************************************)
C17_NoPreconditionViolation ==
    /\ pc \in {"loop", "game_over"} => domino_snake # <<>>
    /\ (pc = "loop" /\ status = "player") => player_pieces # <<>>
    /\ (pc = "loop" /\ status = "computer") =>
          /\ computer_pieces # <<>>
          /\ Abs(ai_move) <= Len(computer_pieces)
    /\ (pc = "game_over" /\ move # 0) =>
          /\ Abs(move) >= 1
          /\ Abs(move) <= 1 + (IF status = "computer" THEN Len(player_pieces)
                                                      ELSE Len(computer_pieces))

\* the player has just placed the last but one piece of the hand, by its
\* highest index
C17_Witness ==
    /\ pc = "game_over"
    /\ status = "computer"
    /\ Abs(move) = 2
    /\ Len(player_pieces) = 1

(***************************************************************************)
(* C18  Terminal statuses are absorbing: once the status is player_wins,   *)
(* computer_wins or draw no move is applied and the hands, the stock, the  *)
(* snake and the status never change again.                                *)
(***************************************************************************)
C18_TerminalAbsorbing ==
    [][(status \in Terminal) => UNCHANGED <<game, move>> ]_vars

\* the driver has left the game loop
C18_Witness ==
    /\ pc = "done"
    /\ status \in Terminal

(***************************************************************************)
(* C19  Outcome consistency: at most one hand is empty; the status is      *)
(* player_wins only with the player's hand empty, computer_wins only with  *)
(* the computer's hand empty and the player's not; with the status player  *)
(* or computer after game_over both hands are non-empty.                   *)
(***************************************************************************)
C19_StatusConsistent ==
    /\ status = "player_wins" => player_pieces = <<>>
    /\ status = "computer_wins" => (computer_pieces = <<>> /\ player_pieces # <<>>)
    /\ (pc = "loop" /\ status \in {"player", "computer"}) =>
          (player_pieces # <<>> /\ computer_pieces # <<>>)

\* the claim as stated, the state before the first deal included
C19_OutcomeConsistency ==
    /\ ~(player_pieces = <<>> /\ computer_pieces = <<>>)
    /\ C19_StatusConsistent

\* the claim from the first new_game on
C19_OutcomeConsistencyDealt ==
    Len(stock_pieces) < Len(initial_pieces) => C19_OutcomeConsistency

\* the computer has won and the driver has left the loop
C19_Witness ==
    /\ pc = "done"
    /\ status = "computer_wins"
    /\ computer_pieces = <<>>

====
